---- MODULE Spec2Model ----
(***************************************************************************)
(* The ensemble engine of AI-Voice-Detection: AudioDetector.__init__ and   *)
(* AudioDetector.analyze_audio of detect.py, called from the threadpool of *)
(* app.py.                                                                 *)
(*                                                                         *)
(* Numbers.  The code computes in floats; the model computes in exact      *)
(* fractions.  A model score s stands for s / ScoreDen, a weight w for     *)
(* w / 10 (1.0 is 10, 1.2 is 12), total_score for total_score/(10*ScoreDen)*)
(* and a fraction is a record [num, den].  round(x, 2) and the ".1f"       *)
(* format round the exact value, ties to even, as Python does on a value   *)
(* that a double holds exactly.                                            *)
(*                                                                         *)
(* Strings a label is made of are sequences of one-character strings, so   *)
(* that lower() and strip() act on characters.                             *)
(***************************************************************************)
EXTENDS Integers, Sequences, FiniteSets, TLC

VARIABLES
    loading,        \* __init__: index in models_config of the model loaded next
    pipelines,      \* self.pipelines: the loaded models, as indices of models_config
    pc,             \* per request: where analyze_audio stands
    idx,            \* per request: position in self.pipelines of the for loop
    centroid,       \* per request: the spectral centroid (line 60)
    votes,          \* per request: the votes list
    total_score,    \* per request
    total_weight,   \* per request
    explanations,   \* per request: the explanations list
    ret,            \* per request: <<>> or <<the returned dict>>
    calls,          \* history, per request: the calls of pipelines and how they ended
    outs,           \* history, per request: what each model of the roster answered
    threw,          \* history, per request: <<>> or <<the step outside the model
                    \* loop that threw, str(e)>>
    results,        \* label normalisation alone: the list a pipeline returned
    parsed          \* label normalisation alone: <<>> or <<ai_score>>

vars == <<loading, pipelines, pc, idx, centroid, votes, total_score, total_weight,
          explanations, ret, calls, outs, threw, results, parsed>>

reqVars == <<pc, idx, centroid, votes, total_score, total_weight,
             explanations, ret, calls, outs, threw>>

----------------------------------------------------------------------------
(* Bounds *)

\* scores are the multiples of 1 / (2 * HalfSteps) in [0, 1]: 0.5 is always one
HalfSteps == 2

\* the longest list of (label, score) pairs a pipeline returns in SpecParse
MaxResults == 2

ScoreDen == 2 * HalfSteps

Scores == 0 .. ScoreDen

\* the requests that may run at once in the threadpool
Requests == {"r1", "r2"}

----------------------------------------------------------------------------
(* The roster *)

models_config ==
    << [name |-> "MelodyMachine", weight |-> 10],
       [name |-> "Mo-Creator",    weight |-> 10],
       [name |-> "Hemgg",         weight |-> 10],
       [name |-> "Gustking-XLSR", weight |-> 12] >>

\* item['config'] of an entry of self.pipelines
ConfigOf(item) == models_config[item]

----------------------------------------------------------------------------
(* Label normalisation: lines 78-90 *)

ai_labels ==
    { <<"f","a","k","e">>, <<"s","p","o","o","f">>,
      <<"a","i","v","o","i","c","e">>,
      <<"a","r","t","i","f","i","c","i","a","l">>,
      <<"g","e","n","e","r","a","t","e","d">> }

\* str.lower() on one character
LowerChar(c) ==
    CASE c = "A" -> "a" [] c = "B" -> "b" [] c = "C" -> "c" [] c = "D" -> "d"
      [] c = "E" -> "e" [] c = "F" -> "f" [] c = "G" -> "g" [] c = "H" -> "h"
      [] c = "I" -> "i" [] c = "J" -> "j" [] c = "K" -> "k" [] c = "L" -> "l"
      [] c = "M" -> "m" [] c = "N" -> "n" [] c = "O" -> "o" [] c = "P" -> "p"
      [] c = "Q" -> "q" [] c = "R" -> "r" [] c = "S" -> "s" [] c = "T" -> "t"
      [] c = "U" -> "u" [] c = "V" -> "v" [] c = "W" -> "w" [] c = "X" -> "x"
      [] c = "Y" -> "y" [] c = "Z" -> "z" [] OTHER -> c

Lower(s) == [k \in 1 .. Len(s) |-> LowerChar(s[k])]

\* the characters str.strip() removes
IsSpace(c) == c \in {" ", "\t", "\n", "\r"}

RECURSIVE LStrip(_)
LStrip(s) ==
    IF s # <<>> /\ IsSpace(Head(s)) THEN LStrip(Tail(s)) ELSE s

RECURSIVE RStrip(_)
RStrip(s) ==
    IF s # <<>> /\ IsSpace(s[Len(s)]) THEN RStrip(SubSeq(s, 1, Len(s) - 1)) ELSE s

Strip(s) == RStrip(LStrip(s))

\* label_clean = r['label'].lower().strip()
LabelClean(label) == Strip(Lower(label))

\* the bug of scanning on after a match: the last matching label wins
RECURSIVE ParseLastMatch(_)
ParseLastMatch(rs) ==
    IF rs = <<>> THEN 0
    ELSE IF LabelClean(rs[Len(rs)].label) \in ai_labels THEN rs[Len(rs)].score
    ELSE ParseLastMatch(SubSeq(rs, 1, Len(rs) - 1))

\* ai_score after the loop of lines 85-90 over the list rs
RECURSIVE ParseAiScore(_)
ParseAiScore(rs) ==
    IF rs = <<>> THEN 0
    ELSE IF LabelClean(Head(rs).label) \in ai_labels THEN Head(rs).score
    ELSE ParseAiScore(Tail(rs))

----------------------------------------------------------------------------
(* Votes and aggregation: lines 95-151 *)

\* verdict = "AI" if ai_score > 0.5 else "HUMAN"
Verdict(ai) == IF 2 * ai > ScoreDen THEN "AI" ELSE "HUMAN"

\* the dict appended to votes
Vote(cfg, ai) == [name |-> cfg.name, ai_prob |-> ai, verdict |-> Verdict(ai)]

\* the bug of keeping the totals on the shared detector instead of in locals
AccumulateShared(total, r, x) == [q \in Requests |-> total[q] + x]

\* total_score += ..., total_weight += ...: the totals are locals of the call
Accumulate(total, r, x) == [total EXCEPT ![r] = @ + x]

\* the bug of a fail-safe that defaults to the other end of the scale
FinalEnsembleScoreFailsHigh(ts, tw) ==
    IF tw > 0 THEN [num |-> ts, den |-> ScoreDen * tw] ELSE [num |-> 1, den |-> 1]

\* final_ensemble_score: total_score / total_weight, or 0.0
FinalEnsembleScore(ts, tw) ==
    IF tw > 0 THEN [num |-> ts, den |-> ScoreDen * tw] ELSE [num |-> 0, den |-> 1]

\* the bug of a non-strict threshold
IsAiNonStrict(f) == 2 * f.num >= f.den

\* is_ai = final_ensemble_score > 0.5
IsAi(f) == 2 * f.num > f.den

\* the bug of reporting the ensemble score whatever the winning class is
ClassConfidenceRaw(f) == f

\* class_confidence = final_ensemble_score if is_ai else (1.0 - final_ensemble_score)
ClassConfidence(f) ==
    IF IsAi(f) THEN f ELSE [num |-> f.den - f.num, den |-> f.den]

\* n / d rounded to an integer, ties to even
RoundHalfEven(n, d) ==
    LET q == n \div d
        rem == n % d
    IN  IF 2 * rem > d THEN q + 1
        ELSE IF 2 * rem < d THEN q
        ELSE IF q % 2 = 0 THEN q ELSE q + 1

\* round(float(class_confidence), 2), in hundredths
Round2(f) == RoundHalfEven(100 * f.num, f.den)

\* f"{final_ensemble_score*100:.1f}"
FormatPercent(f) ==
    LET tenths == RoundHalfEven(1000 * f.num, f.den)
    IN  ToString(tenths \div 10) \o "." \o ToString(tenths % 10)

\* sum(1 for v in votes if v['verdict'] == 'AI')
AiVotesCount(vs) == Cardinality({k \in 1 .. Len(vs) : vs[k].verdict = "AI"})

CountSentence(k, n) ==
    "Ensemble Analysis: " \o ToString(k) \o "/" \o ToString(n)
        \o " models flagged this audio as AI-generated."

ScoreSentence(f) == "Aggregated Score: " \o FormatPercent(f) \o "%."

CentroidThreshold == 2000

VocoderSentence ==
    "High-frequency spectral artifacts consistent with neural vocoders detected."

PatternSentence ==
    "Deep learning pattern matching identified non-biological features."

NaturalSentence ==
    "Acoustic analysis confirms natural vocal resonance and organic production."

\* the third sentence: lines 136-142
ContextSentence(isai, c) ==
    IF isai
    THEN IF c > CentroidThreshold THEN VocoderSentence ELSE PatternSentence
    ELSE NaturalSentence

\* the explanations list: lines 132-142
Explanations(vs, f, c) ==
    << CountSentence(AiVotesCount(vs), Len(vs)),
       ScoreSentence(f),
       ContextSentence(IsAi(f), c) >>

\* " ".join(explanations)
RECURSIVE Join(_)
Join(ss) ==
    IF ss = <<>> THEN ""
    ELSE IF Len(ss) = 1 THEN ss[1]
    ELSE ss[1] \o " " \o Join(Tail(ss))

\* the bug of letting the acoustic feature vote
NormalResultByCentroid(vs, f, c) ==
    LET isai == IsAi(f) \/ c > CentroidThreshold
    IN  [ classification  |-> IF isai THEN "AI_GENERATED" ELSE "HUMAN",
          confidenceScore |-> Round2(ClassConfidence(f)),
          explanation     |-> Join(Explanations(vs, f, c)) ]

\* the dict returned at line 146
NormalResult(vs, f, c) ==
    [ classification  |-> IF IsAi(f) THEN "AI_GENERATED" ELSE "HUMAN",
      confidenceScore |-> Round2(ClassConfidence(f)),
      explanation     |-> Join(Explanations(vs, f, c)) ]

FailedExplanation == "Analysis failed due to internal error."

\* the bug of an except branch that returns the shape of a normal result
ErrorResultNoField(e) ==
    [ classification  |-> "HUMAN",
      confidenceScore |-> 0,
      explanation     |-> FailedExplanation ]

\* the dict returned at line 155
ErrorResult(e) ==
    [ classification  |-> "HUMAN",
      confidenceScore |-> 0,
      error           |-> e,
      explanation     |-> FailedExplanation ]

----------------------------------------------------------------------------
(* What the collaborators may answer *)

\* str(e) of an exception of librosa
ErrorMessages == {"NoBackendError", "ParameterError"}

Centroids == {1500, CentroidThreshold, 2500}

L_fake == <<"f","a","k","e">>

L_FAKE_sp == <<"F","A","K","E"," ">>

L_Fake == <<"F","a","k","e">>

L_Spoof_ws == <<" ","S","p","o","o","f","\n">>

L_real == <<"r","e","a","l">>

L_fa_ke == <<"f","a"," ","k","e">>

L_deepfake == <<"d","e","e","p","f","a","k","e">>

L_bonafide == <<"b","o","n","a","f","i","d","e">>

Labels == {L_fake, L_FAKE_sp, L_Fake, L_Spoof_ws, L_real, L_fa_ke, L_deepfake, L_bonafide}

LabelScores == [label : Labels, score : Scores]

\* every list of at most MaxResults (label, score) pairs
AllResults == UNION {[1 .. n -> LabelScores] : n \in 0 .. MaxResults}

\* a two-class model: the distribution over its labels, real first
Binary(s) == << [label |-> L_real, score |-> ScoreDen - s],
                [label |-> L_FAKE_sp, score |-> s] >>

\* what a pipeline returns to one request of Spec
ModelOutputs ==
    {Binary(s) : s \in Scores} \cup {<<[label |-> L_bonafide, score |-> ScoreDen]>>}

\* what a pipeline returns to the concurrent requests of SpecConc
ConcOutputs == {Binary(ScoreDen), Binary(0)}

ConcCentroids == {CentroidThreshold, 2500}

----------------------------------------------------------------------------
(* AudioDetector.__init__: lines 36-46 *)

Ready == loading > Len(models_config)

LoadModel ==
    /\ ~Ready
    /\ pipelines' = Append(pipelines, loading)
    /\ loading' = loading + 1
    /\ UNCHANGED <<reqVars, results, parsed>>

LoadModelFails ==
    /\ ~Ready
    /\ loading' = loading + 1
    /\ UNCHANGED <<pipelines, reqVars, results, parsed>>

----------------------------------------------------------------------------
(* AudioDetector.analyze_audio, one step at a time *)

\* run_in_threadpool(detector.analyze_audio, ...): app.py line 94
Begin(r) ==
    /\ Ready
    /\ pc[r] = "idle"
    /\ pc' = [pc EXCEPT ![r] = "load"]
    /\ UNCHANGED <<loading, pipelines, idx, centroid, votes, total_score,
                   total_weight, explanations, ret, calls, outs, threw,
                   results, parsed>>

\* the except branch of line 153, entered from the step `step`
Except(r, step, e) ==
    /\ ret' = [ret EXCEPT ![r] = <<ErrorResult(e)>>]
    /\ threw' = [threw EXCEPT ![r] = <<step, e>>]
    /\ pc' = [pc EXCEPT ![r] = "done"]

\* librosa.load returns: line 55
LoadAudio(r) ==
    /\ pc[r] = "load"
    /\ pc' = [pc EXCEPT ![r] = "features"]
    /\ UNCHANGED <<loading, pipelines, idx, centroid, votes, total_score,
                   total_weight, explanations, ret, calls, outs, threw,
                   results, parsed>>

\* librosa.load raises: line 55, then 153-160
LoadAudioRaises(r, e) ==
    /\ pc[r] = "load"
    /\ Except(r, "load", e)
    /\ UNCHANGED <<loading, pipelines, idx, centroid, votes, total_score,
                   total_weight, explanations, calls, outs, results, parsed>>

\* the centroid is computed, the locals of the loop are set: lines 60-65
Features(r, c) ==
    /\ pc[r] = "features"
    /\ centroid' = [centroid EXCEPT ![r] = c]
    /\ votes' = [votes EXCEPT ![r] = <<>>]
    /\ total_score' = [total_score EXCEPT ![r] = 0]
    /\ total_weight' = [total_weight EXCEPT ![r] = 0]
    /\ idx' = [idx EXCEPT ![r] = 1]
    /\ pc' = [pc EXCEPT ![r] = "loop"]
    /\ UNCHANGED <<loading, pipelines, explanations, ret, calls, outs, threw,
                   results, parsed>>

\* the feature extraction raises: line 60, then 153-160
FeaturesRaise(r, e) ==
    /\ pc[r] = "features"
    /\ Except(r, "features", e)
    /\ UNCHANGED <<loading, pipelines, idx, centroid, votes, total_score,
                   total_weight, explanations, calls, outs, results, parsed>>

\* p(y, top_k=None) is called on the next model of the roster: lines 69-76
CallModel(r) ==
    /\ pc[r] = "loop"
    /\ idx[r] <= Len(pipelines)
    /\ calls' = [calls EXCEPT ![r] =
                    Append(@, [op |-> "call", model |-> pipelines[idx[r]]])]
    /\ pc' = [pc EXCEPT ![r] = "infer"]
    /\ UNCHANGED <<loading, pipelines, idx, centroid, votes, total_score,
                   total_weight, explanations, ret, outs, threw, results, parsed>>

\* the model answers rs: lines 76-107
ModelReturns(r, rs) ==
    /\ pc[r] = "infer"
    /\ LET cfg == ConfigOf(pipelines[idx[r]])
           ai == ParseAiScore(rs)
       IN  /\ votes' = [votes EXCEPT ![r] = Append(@, Vote(cfg, ai))]
           /\ total_score' = Accumulate(total_score, r, ai * cfg.weight)
           /\ total_weight' = Accumulate(total_weight, r, cfg.weight)
    /\ calls' = [calls EXCEPT ![r] =
                    Append(@, [op |-> "return", model |-> pipelines[idx[r]]])]
    /\ outs' = [outs EXCEPT ![r] = Append(@, [raised |-> FALSE, results |-> rs])]
    /\ idx' = [idx EXCEPT ![r] = @ + 1]
    /\ pc' = [pc EXCEPT ![r] = "loop"]
    /\ UNCHANGED <<loading, pipelines, centroid, explanations, ret, threw,
                   results, parsed>>

\* the bug of counting a model's weight before its inference is known to succeed
ModelRaisesCounted(r) ==
    /\ pc[r] = "infer"
    /\ total_weight' =
           Accumulate(total_weight, r, ConfigOf(pipelines[idx[r]]).weight)
    /\ calls' = [calls EXCEPT ![r] =
                    Append(@, [op |-> "raise", model |-> pipelines[idx[r]]])]
    /\ outs' = [outs EXCEPT ![r] = Append(@, [raised |-> TRUE, results |-> <<>>])]
    /\ idx' = [idx EXCEPT ![r] = @ + 1]
    /\ pc' = [pc EXCEPT ![r] = "loop"]
    /\ UNCHANGED <<loading, pipelines, centroid, votes, total_score,
                   explanations, ret, threw, results, parsed>>

\* the bug of calling a failed model again
ModelRaisesRetried(r) ==
    /\ pc[r] = "infer"
    /\ calls' = [calls EXCEPT ![r] =
                    Append(@, [op |-> "raise", model |-> pipelines[idx[r]]])]
    /\ pc' = [pc EXCEPT ![r] = "loop"]
    /\ UNCHANGED <<loading, pipelines, idx, centroid, votes, total_score,
                   total_weight, explanations, ret, outs, threw, results, parsed>>

\* the model raises: lines 76, 109-110
ModelRaises(r) ==
    /\ pc[r] = "infer"
    /\ calls' = [calls EXCEPT ![r] =
                    Append(@, [op |-> "raise", model |-> pipelines[idx[r]]])]
    /\ outs' = [outs EXCEPT ![r] = Append(@, [raised |-> TRUE, results |-> <<>>])]
    /\ idx' = [idx EXCEPT ![r] = @ + 1]
    /\ pc' = [pc EXCEPT ![r] = "loop"]
    /\ UNCHANGED <<loading, pipelines, centroid, votes, total_score,
                   total_weight, explanations, ret, threw, results, parsed>>

\* the loop is over: aggregation, explanation and return, lines 112-151
Aggregate(r) ==
    /\ pc[r] = "loop"
    /\ idx[r] > Len(pipelines)
    /\ LET f == FinalEnsembleScore(total_score[r], total_weight[r])
       IN  /\ explanations' =
                  [explanations EXCEPT ![r] = Explanations(votes[r], f, centroid[r])]
           /\ ret' = [ret EXCEPT ![r] = <<NormalResult(votes[r], f, centroid[r])>>]
    /\ pc' = [pc EXCEPT ![r] = "done"]
    /\ UNCHANGED <<loading, pipelines, idx, centroid, votes, total_score,
                   total_weight, calls, outs, threw, results, parsed>>

----------------------------------------------------------------------------
(* Label normalisation alone *)

Parse ==
    /\ parsed = <<>>
    /\ parsed' = <<ParseAiScore(results)>>
    /\ UNCHANGED <<loading, pipelines, reqVars, results>>

----------------------------------------------------------------------------
(* Specifications *)

InitEngine ==
    /\ loading = 1
    /\ pipelines = <<>>
    /\ pc = [r \in Requests |-> "idle"]
    /\ idx = [r \in Requests |-> 0]
    /\ centroid = [r \in Requests |-> 0]
    /\ votes = [r \in Requests |-> <<>>]
    /\ total_score = [r \in Requests |-> 0]
    /\ total_weight = [r \in Requests |-> 0]
    /\ explanations = [r \in Requests |-> <<>>]
    /\ ret = [r \in Requests |-> <<>>]
    /\ calls = [r \in Requests |-> <<>>]
    /\ outs = [r \in Requests |-> <<>>]
    /\ threw = [r \in Requests |-> <<>>]

Init ==
    /\ InitEngine
    /\ results = <<>>
    /\ parsed = <<>>

\* one request at a time, every answer of ModelOutputs
Next ==
    \/ LoadModel
    \/ LoadModelFails
    \/ Begin("r1")
    \/ LoadAudio("r1")
    \/ \E e \in ErrorMessages : LoadAudioRaises("r1", e)
    \/ \E c \in Centroids : Features("r1", c)
    \/ \E e \in ErrorMessages : FeaturesRaise("r1", e)
    \/ CallModel("r1")
    \/ \E rs \in ModelOutputs : ModelReturns("r1", rs)
    \/ ModelRaises("r1")
    \/ Aggregate("r1")

Spec == Init /\ [][Next]_vars

\* the requests of the threadpool, interleaved step by step
NextConc ==
    \/ LoadModel
    \/ LoadModelFails
    \/ \E r \in Requests : Begin(r)
    \/ \E r \in Requests : LoadAudio(r)
    \/ \E r \in Requests : LoadAudioRaises(r, "NoBackendError")
    \/ \E r \in Requests, c \in ConcCentroids : Features(r, c)
    \/ \E r \in Requests : FeaturesRaise(r, "ParameterError")
    \/ \E r \in Requests : CallModel(r)
    \/ \E r \in Requests, rs \in ConcOutputs : ModelReturns(r, rs)
    \/ \E r \in Requests : ModelRaises(r)
    \/ \E r \in Requests : Aggregate(r)

SpecConc == Init /\ [][NextConc]_vars

InitParse ==
    /\ InitEngine
    /\ results \in AllResults
    /\ parsed = <<>>

NextParse == Parse

SpecParse == InitParse /\ [][NextParse]_vars

----------------------------------------------------------------------------
(* What the claims are stated with *)

Done(r) == pc[r] = "done"

\* the call returned from line 146
Normal(r) == Done(r) /\ threw[r] = <<>>

Returned(r) == ret[r][1]

WeightOfName(n) ==
    models_config[CHOOSE k \in 1 .. Len(models_config) :
                      models_config[k].name = n].weight

\* sum over the recorded votes of aiProbability * weight
RECURSIVE SumScore(_)
SumScore(vs) ==
    IF vs = <<>> THEN 0
    ELSE Head(vs).ai_prob * WeightOfName(Head(vs).name) + SumScore(Tail(vs))

\* sum over the recorded votes of weight
RECURSIVE SumWeight(_)
SumWeight(vs) ==
    IF vs = <<>> THEN 0 ELSE WeightOfName(Head(vs).name) + SumWeight(Tail(vs))

\* the votes whose aiProbability is above 0.5
Flagging(vs) == {k \in 1 .. Len(vs) : 2 * vs[k].ai_prob > ScoreDen}

----------------------------------------------------------------------------
(* C1 *)

\* C1: a request whose decode succeeds and whose total accumulated weight is
\* 0 returns classification HUMAN and confidenceScore 0.0.
C1_ZeroWeightIsZeroConfidence ==
    \A r \in Requests :
        (Normal(r) /\ total_weight[r] = 0) =>
            /\ Returned(r).classification = "HUMAN"
            /\ Returned(r).confidenceScore = 0

----------------------------------------------------------------------------
(* C2 *)

\* C2: analyze_audio ends every call with a returned value; when a step
\* outside the per-model try block throws, the value is HUMAN, 0.0, the fixed
\* explanation and an error field holding the diagnostic string, and the error
\* field is present on that path only.
C2_FailSafeValue ==
    \A r \in Requests :
        /\ Done(r) <=> Len(ret[r]) = 1
        /\ threw[r] # <<>> =>
              /\ Done(r)
              /\ DOMAIN Returned(r) =
                     {"classification", "confidenceScore", "error", "explanation"}
              /\ Returned(r).classification = "HUMAN"
              /\ Returned(r).confidenceScore = 0
              /\ Returned(r).explanation = "Analysis failed due to internal error."
              /\ Returned(r).error = threw[r][2]
        /\ Done(r) => ("error" \in DOMAIN Returned(r) <=> threw[r] # <<>>)

\* a call whose feature extraction threw has returned
C2_Witness ==
    /\ Done("r1")
    /\ threw["r1"] = <<"features", "ParameterError">>

----------------------------------------------------------------------------
(* The request run alone: what C3 and C9 compare a call with *)

\* the entries seq[k], k and above, of the models whose inference did not
\* raise, in order
RECURSIVE Keep(_, _, _)
Keep(seq, answers, k) ==
    IF k > Len(seq) THEN <<>>
    ELSE IF answers[k].raised THEN Keep(seq, answers, k + 1)
    ELSE <<seq[k]>> \o Keep(seq, answers, k + 1)

\* the votes of the roster `roster` whose k-th model answered answers[k]
AloneVotes(roster, answers) ==
    LET live == Keep(roster, answers, 1)
        said == Keep(answers, answers, 1)
    IN  [k \in 1 .. Len(live) |->
            Vote(ConfigOf(live[k]), ParseAiScore(said[k].results))]

\* the value the code returns for that roster, those answers and that centroid
Alone(roster, answers, c) ==
    LET vs == AloneVotes(roster, answers)
    IN  NormalResult(vs, FinalEnsembleScore(SumScore(vs), SumWeight(vs)), c)

----------------------------------------------------------------------------
(* C3 *)

\* C3: when the inference of some usable models throws, the request still
\* returns normally; the failing models add nothing to total_score or
\* total_weight and have no vote; and the returned value is the one of the
\* same request against the roster without the failing models.
C3_FailureIsolated ==
    \A r \in Requests :
        Normal(r) =>
            LET live == Keep(pipelines, outs[r], 1)
                said == Keep(outs[r], outs[r], 1)
            IN  /\ Len(outs[r]) = Len(pipelines)
                /\ Len(votes[r]) = Len(live)
                /\ \A k \in 1 .. Len(live) :
                       votes[r][k].name = models_config[live[k]].name
                /\ total_weight[r] = SumWeight(votes[r])
                /\ total_score[r] = SumScore(votes[r])
                /\ \A k \in 1 .. Len(said) : ~said[k].raised
                /\ Returned(r) = Alone(live, said, centroid[r])

\* a call on the full roster whose second and fourth models threw and whose
\* other two models flagged the audio
C3_Witness ==
    /\ Normal("r1")
    /\ Len(pipelines) = 4
    /\ outs["r1"][2].raised /\ outs["r1"][4].raised
    /\ ~outs["r1"][1].raised /\ ~outs["r1"][3].raised
    /\ Returned("r1").classification = "AI_GENERATED"

----------------------------------------------------------------------------
(* C4 *)

\* C4: with total weight above 0 the confidenceScore is the winning class's
\* probability rounded to 2 decimals, round(ensembleScore, 2) for AI_GENERATED
\* and round(1 - ensembleScore, 2) for HUMAN, so it lies in [0.5, 1.0]; over
\* all requests it lies in [0.0, 1.0].
C4_ConfidenceOfWinner ==
    \A r \in Requests :
        /\ Done(r) =>
              /\ Returned(r).confidenceScore >= 0
              /\ Returned(r).confidenceScore <= 100
        /\ (Normal(r) /\ SumWeight(votes[r]) > 0) =>
              LET num == SumScore(votes[r])
                  den == ScoreDen * SumWeight(votes[r])
              IN  /\ Returned(r).classification = "AI_GENERATED" =>
                         Returned(r).confidenceScore = RoundHalfEven(100 * num, den)
                  /\ Returned(r).classification = "HUMAN" =>
                         Returned(r).confidenceScore =
                             RoundHalfEven(100 * (den - num), den)
                  /\ Returned(r).confidenceScore >= 50
                  /\ Returned(r).confidenceScore <= 100

\* a HUMAN verdict on an ensemble score strictly between 0 and 0.5
C4_Witness ==
    /\ Normal("r1")
    /\ SumWeight(votes["r1"]) > 0
    /\ SumScore(votes["r1"]) > 0
    /\ Returned("r1").classification = "HUMAN"
    /\ Returned("r1").confidenceScore < 100

----------------------------------------------------------------------------
(* C5 *)

\* an upper-case letter and its lower-case letter
CasePairs ==
    { <<"A","a">>, <<"B","b">>, <<"C","c">>, <<"D","d">>, <<"E","e">>,
      <<"F","f">>, <<"G","g">>, <<"H","h">>, <<"I","i">>, <<"J","j">>,
      <<"K","k">>, <<"L","l">>, <<"M","m">>, <<"N","n">>, <<"O","o">>,
      <<"P","p">>, <<"Q","q">>, <<"R","r">>, <<"S","s">>, <<"T","t">>,
      <<"U","u">>, <<"V","v">>, <<"W","w">>, <<"X","x">>, <<"Y","y">>,
      <<"Z","z">> }

Whitespace == {" ", "\t", "\n", "\r"}

\* the label is the word, in any case, between any whitespace
SpellsWord(label, word) ==
    \E first \in 1 .. Len(label) + 1 :
        LET last == first + Len(word) - 1
        IN  /\ last <= Len(label)
            /\ \A k \in 1 .. Len(label) :
                   IF k < first \/ k > last
                   THEN label[k] \in Whitespace
                   ELSE \/ label[k] = word[k - first + 1]
                        \/ <<label[k], word[k - first + 1]>> \in CasePairs

\* the label names the synthetic class
Synthetic(label) == \E word \in ai_labels : SpellsWord(label, word)

\* C5: a model's AI-probability is the score of the first pair, in returned
\* order, whose label lower-cased and trimmed is one of fake, spoof, aivoice,
\* artificial, generated; it is 0.0 when no pair has such a label; case and
\* surrounding whitespace of a label make no difference.
C5_FirstSyntheticLabel ==
    parsed # <<>> =>
        LET hits == {k \in 1 .. Len(results) : Synthetic(results[k].label)}
        IN  /\ hits = {} => parsed[1] = 0
            /\ hits # {} =>
                   \E k \in hits :
                       /\ \A j \in hits : k <= j
                       /\ parsed[1] = results[k].score

\* two synthetic labels spelt with capitals and whitespace, with different
\* scores: the first one's score is the AI-probability
C5_Witness ==
    /\ parsed # <<>>
    /\ Len(results) = 2
    /\ results[1].label = L_Spoof_ws
    /\ results[2].label = L_FAKE_sp
    /\ results[1].score # results[2].score
    /\ parsed[1] = results[1].score

----------------------------------------------------------------------------
(* C6 *)

\* C6: a request that returns normally is AI_GENERATED exactly when the total
\* weight is above 0 and the sum over the votes of aiProbability * weight
\* divided by the sum of their weights is strictly above 0.5; an ensemble
\* score of exactly 0.5 is HUMAN.
C6_StrictMajority ==
    \A r \in Requests :
        Normal(r) =>
            (Returned(r).classification = "AI_GENERATED" <=>
                /\ SumWeight(votes[r]) > 0
                /\ 2 * SumScore(votes[r]) > ScoreDen * SumWeight(votes[r]))

\* an ensemble score of exactly 0.5 over several votes that disagree
C6_Witness ==
    /\ Normal("r1")
    /\ Len(votes["r1"]) >= 2
    /\ Flagging(votes["r1"]) # {}
    /\ 2 * SumScore(votes["r1"]) = ScoreDen * SumWeight(votes["r1"])
    /\ Returned("r1").classification = "HUMAN"

----------------------------------------------------------------------------
(* C7 *)

\* C7: two requests that return normally on the same roster with the same
\* model outputs and different centroids have the same classification and
\* confidenceScore, and the same explanation except possibly for its third
\* sentence, which differs only when the classification is AI_GENERATED and
\* the centroids lie on different sides of 2000.
C7_CentroidOnlyWords ==
    \A r, q \in Requests :
        (Normal(r) /\ Normal(q) /\ outs[r] = outs[q]) =>
            /\ Returned(r).classification = Returned(q).classification
            /\ Returned(r).confidenceScore = Returned(q).confidenceScore
            /\ explanations[r][1] = explanations[q][1]
            /\ explanations[r][2] = explanations[q][2]
            /\ Returned(r).explanation = Join(explanations[r])
            /\ explanations[r][3] # explanations[q][3] =>
                   /\ Returned(r).classification = "AI_GENERATED"
                   /\ (centroid[r] > 2000) # (centroid[q] > 2000)
            /\ explanations[r][3] = explanations[q][3] =>
                   Returned(r).explanation = Returned(q).explanation

\* two requests with the same outputs, flagged by the ensemble, whose
\* centroids lie on different sides of 2000
C7_Witness ==
    /\ Normal("r1") /\ Normal("r2")
    /\ outs["r1"] = outs["r2"]
    /\ Len(votes["r1"]) >= 2
    /\ centroid["r1"] > 2000
    /\ centroid["r2"] <= 2000
    /\ Returned("r1").classification = "AI_GENERATED"
    /\ explanations["r1"][3] # explanations["r2"][3]

----------------------------------------------------------------------------
(* C8 *)

\* C8: within a request whose decode succeeds the usable models are called
\* one after the other in roster order: the k-th call is on the k-th model
\* of the roster and starts only when the call before it has returned or
\* raised; no model is called twice, a failed one included; every usable
\* model has been called once when the request returns; the votes are in
\* roster order.
C8_SequentialOnce ==
    \A r \in Requests :
        /\ Len(calls[r]) <= 2 * Len(pipelines)
        /\ \A j \in 1 .. Len(calls[r]) :
              /\ calls[r][j].model = pipelines[(j + 1) \div 2]
              /\ j % 2 = 1 => calls[r][j].op = "call"
              /\ j % 2 = 0 => calls[r][j].op \in {"return", "raise"}
        /\ pc[r] = "infer" <=> Len(calls[r]) % 2 = 1
        /\ Normal(r) => Len(calls[r]) = 2 * Len(pipelines)
        /\ LET returned == {j \in 1 .. Len(calls[r]) : calls[r][j].op = "return"}
           IN  /\ Len(votes[r]) = Cardinality(returned)
               /\ \A k \in 1 .. Len(votes[r]) :
                      \E j \in returned :
                          /\ Cardinality({i \in returned : i <= j}) = k
                          /\ votes[r][k].name = models_config[calls[r][j].model].name
        /\ \A k, m \in 1 .. Len(votes[r]) :
              k < m =>
                  \E a, b \in 1 .. Len(pipelines) :
                      /\ a < b
                      /\ models_config[pipelines[a]].name = votes[r][k].name
                      /\ models_config[pipelines[b]].name = votes[r][m].name

\* a request on a roster of three whose second model raised and whose third
\* model was then called and answered
C8_Witness ==
    /\ Normal("r1")
    /\ Len(pipelines) = 3
    /\ calls["r1"][4].op = "raise"
    /\ calls["r1"][5].op = "call"
    /\ calls["r1"][6].op = "return"
    /\ Len(votes["r1"]) = 2

----------------------------------------------------------------------------
(* C9 *)

\* what the call r returns when it runs alone on its input: the audio (whether
\* its decoding or its features throw, and its centroid) and the models' answers
RunAlone(r) ==
    IF threw[r] # <<>>
    THEN [ classification  |-> "HUMAN",
           confidenceScore |-> 0,
           error           |-> threw[r][2],
           explanation     |-> "Analysis failed due to internal error." ]
    ELSE Alone(pipelines, outs[r], centroid[r])

C9_SameAsAlone == \A r \in Requests : Done(r) => Returned(r) = RunAlone(r)

\* C9: however the steps of the calls running on the shared detector
\* interleave, each call returns what it returns when run alone on the same
\* input, and the roster does not change once startup is over.
C9_Independent ==
    /\ []C9_SameAsAlone
    /\ [][Ready => pipelines' = pipelines]_vars

\* one call has returned AI_GENERATED on the full roster while the other is
\* inside an inference with votes of its own that do not flag the audio
C9_Witness ==
    /\ Normal("r1")
    /\ Len(votes["r1"]) = 4
    /\ Returned("r1").classification = "AI_GENERATED"
    /\ pc["r2"] = "infer"
    /\ Len(votes["r2"]) = 2
    /\ total_score["r2"] = 0

----------------------------------------------------------------------------
(* C10 *)

\* C10: a request that returns AI_GENERATED has at least one vote whose
\* aiProbability is above 0.5, so that the k of "k/n models flagged" is
\* between 1 and n; a request with no vote or with an error returns HUMAN.
C10_NoAccusationWithoutVote ==
    \A r \in Requests :
        Done(r) =>
            LET k == Cardinality(Flagging(votes[r]))
                n == Len(votes[r])
            IN  /\ Returned(r).classification = "AI_GENERATED" =>
                       /\ 1 <= k /\ k <= n
                       /\ \E j \in 1 .. n : votes[r][j].verdict = "AI"
                       /\ explanations[r][1] = CountSentence(k, n)
                /\ (n = 0 \/ threw[r] # <<>>) =>
                       Returned(r).classification = "HUMAN"

\* AI_GENERATED with a single flagging vote among several, after a model
\* raised
C10_Witness ==
    /\ Normal("r1")
    /\ Returned("r1").classification = "AI_GENERATED"
    /\ Cardinality(Flagging(votes["r1"])) = 1
    /\ Len(votes["r1"]) >= 2
    /\ Len(votes["r1"]) < Len(pipelines)

====
